---- MODULE Spec2Model ----
(***************************************************************************)
(* A model of slpdex-offers: the live offer book of one token              *)
(* (MarketToken, src/src/token.ts) and the market overview                  *)
(* (MarketOverview, src/src/overview.ts), with the price codec they share   *)
(* (decodePrice / decodeAddress, src/unnamed/part_001).                     *)
(***************************************************************************)
EXTENDS Integers, Sequences, FiniteSets, TLC

VARIABLES
    offers,      \* MarketToken._offers: the book, a list of TokenOffer
    listeners,   \* MarketToken._receivedOfferListeners, in registration order
    pc,          \* where MarketToken.create() stands: "fetching", "ready", "failed"
    last,        \* history: what the last handler was given and did
    closed,      \* history: output references removed from the book by a message
    earlySpent,  \* history: inputs of the messages handled before the snapshot
    delivered,   \* history: the records of the message just handled and the book it found
    _tokenDetails,         \* MarketOverview's six maps, each a function of
    _tokenLastTrades,      \* the asset ids it holds
    _tokenVolumes,
    _tokenPrices,
    _tokenPriceIncreases,
    _tokenOverview,
    promises,    \* the four fetches of MarketOverview.create(), in its order
    awaiting,    \* the promise create() awaits
    created,     \* the promise create() returned
    metadata,    \* history: the asset ids of the metadata answer
    answers,     \* history: the answers of the trade-totals and the volume queries
    _fuse,       \* MarketOverview._fuse: the records of the fuzzy index
    asked,       \* history: the last call of tokens() or searchTokens() and its result
    codec,       \* a call of decodePrice: its arguments, then its result
    transform    \* a call of _transformTx: its record, then its result

tokenVars == <<offers, listeners, pc, last, closed, earlySpent, delivered>>

overviewVars == <<_tokenDetails, _tokenLastTrades, _tokenVolumes, _tokenPrices,
                  _tokenPriceIncreases, _tokenOverview, promises, awaiting, created,
                  metadata, answers, _fuse, asked>>

vars == <<tokenVars, overviewVars, codec, transform>>

-----------------------------------------------------------------------------
(* Bounds of the model.                                                    *)

MaxOffers == 2      \* a message is handled only while the book is this short
MaxBatch == 2       \* transactions in one message
MaxSnapshot == 2    \* records in the snapshot's answer (u and c together)
MaxListeners == 2   \* registered listeners

-----------------------------------------------------------------------------
(* bignumber.js values.  A BigNumber is the exact rational n / d in lowest *)
(* terms; 1/0 is Infinity.  The inputs of the model keep every quotient a  *)
(* terminating decimal of fewer than 20 places, where BigNumber's division *)
(* is exact.                                                                *)

RECURSIVE Gcd(_, _)
Gcd(a, b) == IF b = 0 THEN a ELSE Gcd(b, a % b)

Abs(a) == IF a < 0 THEN -a ELSE a

BigNumber(n, d) ==
    IF d = 0 THEN [n |-> 1, d |-> 0]
    ELSE LET g == Gcd(Abs(n), d) IN [n |-> n \div g, d |-> d \div g]

BNTimes(x, y) == BigNumber(x.n * y.n, x.d * y.d)

BNDiv(x, y) ==
    IF y.n < 0 THEN BigNumber(-(x.n * y.d), x.d * (-y.n))
    ELSE BigNumber(x.n * y.d, x.d * y.n)

BNMinus(x, y) == BigNumber(x.n * y.d - y.n * x.d, x.d * y.d)

BNPlus(x, y) == BigNumber(x.n * y.d + y.n * x.d, x.d * y.d)

RECURSIVE Pow10(_)
Pow10(k) == IF k = 0 THEN 1 ELSE 10 * Pow10(k - 1)

(* BigNumber.prototype.valueOf: the decimal STRING of the value, as the    *)
(* sequence of its UTF-16 code units ("0".."9" are 48..57, "." is 46,      *)
(* "-" is 45).                                                             *)
RECURSIVE Digits(_)
Digits(n) == IF n < 10 THEN <<48 + n>> ELSE Append(Digits(n \div 10), 48 + (n % 10))

RECURSIVE FracDigits(_, _)
FracDigits(r, d) ==
    IF r = 0 THEN <<>>
    ELSE <<48 + ((r * 10) \div d)>> \o FracDigits((r * 10) % d, d)

ValueOf(x) ==
    LET a == Abs(x.n)
        whole == Digits(a \div x.d)
        frac == FracDigits(a % x.d, x.d)
        str == IF frac = <<>> THEN whole ELSE whole \o <<46>> \o frac
    IN IF x.n < 0 THEN <<45>> \o str ELSE str

-----------------------------------------------------------------------------
(* The price codec.                                                        *)

\* Base64.encode("EXCH")
LOKAD_ID_BASE64 == "RVhDSA=="

VERSION == [op |-> 82]

(* decodeBase64 = atob, then the code units as bytes.  A base64 string is  *)
(* the sequence of its sextets (0..63), padding left out; atob regroups    *)
(* the bits into bytes and throws on a lone trailing sextet.               *)
RECURSIVE AtobBytes(_)
AtobBytes(s) ==
    IF Len(s) = 0 THEN <<>>
    ELSE IF Len(s) = 2 THEN <<s[1] * 4 + (s[2] \div 16)>>
    ELSE IF Len(s) = 3
        THEN <<s[1] * 4 + (s[2] \div 16), (s[2] % 16) * 16 + (s[3] \div 4)>>
    ELSE <<s[1] * 4 + (s[2] \div 16),
           (s[2] % 16) * 16 + (s[3] \div 4),
           (s[3] % 4) * 64 + s[4]>> \o AtobBytes(SubSeq(s, 5, Len(s)))

decodeBase64(base64) ==
    IF Len(base64) % 4 = 1 THEN [threw |-> TRUE, bytes |-> <<>>]
    ELSE [threw |-> FALSE, bytes |-> AtobBytes(base64)]

\* DataView.getUint32(0, false): big-endian, RangeError under 4 bytes
getUint32(buffer) ==
    ((buffer[1] * 256 + buffer[2]) * 256 + buffer[3]) * 256 + buffer[4]

NoPrice == [threw |-> TRUE, pricePerToken |-> BigNumber(0, 1), scriptPrice |-> BigNumber(0, 1)]

\* the last three lines of decodePrice
PriceOf(decimals, isInverted, scriptPrice) ==
    [threw |-> FALSE,
     pricePerToken |-> BNTimes(BigNumber(Pow10(decimals), 1),
                               IF isInverted THEN BNDiv(BigNumber(1, 1), scriptPrice)
                                             ELSE scriptPrice),
     scriptPrice |-> scriptPrice]

\* decodePrice testing the second byte of the power buffer only
DecodeBuffersSecondByte(decimals, powerBuffer, scriptPriceBuffer) ==
    IF powerBuffer.threw \/ scriptPriceBuffer.threw THEN NoPrice
    ELSE IF Len(scriptPriceBuffer.bytes) < 4 THEN NoPrice
    ELSE PriceOf(decimals,
                 Len(powerBuffer.bytes) >= 2 /\ powerBuffer.bytes[2] = 1,
                 BigNumber(getUint32(scriptPriceBuffer.bytes), 1))

\* decodePrice from the two decoded buffers on
DecodeBuffers(decimals, powerBuffer, scriptPriceBuffer) ==
    IF powerBuffer.threw \/ scriptPriceBuffer.threw THEN NoPrice
    ELSE IF Len(scriptPriceBuffer.bytes) < 4 THEN NoPrice
    ELSE PriceOf(decimals,
                 Len(powerBuffer.bytes) = 2 /\ powerBuffer.bytes[2] = 1,
                 BigNumber(getUint32(scriptPriceBuffer.bytes), 1))

decodePrice(decimals, offer) ==
    DecodeBuffers(decimals, decodeBase64(offer.power), decodeBase64(offer.price))

\* cashaddr.encode over the decoded hash
EncodeAddress(hash) ==
    IF hash.threw THEN [threw |-> TRUE, address |-> <<>>]
    ELSE [threw |-> FALSE, address |-> <<"bitcoincash", "P2PKH", hash.bytes>>]

(* cashaddr.encode(prefix, type, hash): the address-encoding collaborator, *)
(* a deterministic injective function of its arguments.                    *)
decodeAddress(addressBase64) == EncodeAddress(decodeBase64(addressBase64))

-----------------------------------------------------------------------------
(* Network settings.                                                       *)

feeDivisor == 500

defaultNetworkSettings ==
    [feeAddress |-> "bitcoincash:qp5x5tmxluwm62ny66zy9u4zuqvkmcv8sq2ceuxmwd",
     feeAddressSlp |-> "simpleledger:qp5x5tmxluwm62ny66zy9u4zuqvkmcv8sqxrj8nmsn",
     feeDivisor |-> feeDivisor]

(* cashcontracts.advancedTradeOfferAddress: the contract-address           *)
(* collaborator, a deterministic injective function of the offer's terms.  *)
advancedTradeOfferAddress(tokenFactor, params) ==
    <<"p2sh", tokenFactor, params.tokenId, params.sellAmountToken,
      params.pricePerToken, params.receivingAddress, params.feeAddress,
      params.feeDivisor>>

-----------------------------------------------------------------------------
(* Raw transaction records (TokenOfferEntry).  An absent optional field is *)
(* the empty sequence; "missing" names the parts a malformed record lacks. *)

Input(b0, b1, b2, b3, b4, h, i) ==
    [b0 |-> b0, b1 |-> b1, b2 |-> b2, b3 |-> b3, b4 |-> b4, e |-> [h |-> h, i |-> i]]

\* the first offer-encoding input of a record, or none
FirstOf(exchInputs) == IF Len(exchInputs) = 0 THEN <<>> ELSE <<exchInputs[1]>>

_findExchInput(entry) ==
    FirstOf(SelectSeq(entry.in, LAMBDA input :
        /\ input.b0 = LOKAD_ID_BASE64
        /\ input.b1.type = "object"
        /\ input.b1.op = VERSION.op))

Threw == [threw |-> TRUE, offer |-> <<>>]

NotAnOffer == [threw |-> FALSE, offer |-> <<>>]

\* the try block without its address check
VerifiedOfferUnchecked(offer) == [threw |-> FALSE, offer |-> <<offer>>]

\* the address check that ends the try block of _transformTx
VerifiedOffer(offer) ==
    IF offer.expectedAddress # offer.utxoEntry.address THEN NotAnOffer
    ELSE [threw |-> FALSE, offer |-> <<offer>>]

(* The offer of the try block of _transformTx.  The field "fresh" is not a *)
(* field of the program's offer: it stands for the identity of the object, *)
(* TRUE for an offer created by the last handler.                          *)
BuiltOffer(feeAddress, entry, tokenFactor, price, sellAmountToken, receivingAddress) ==
    [timestamp |-> IF entry.blk = <<>> THEN <<>> ELSE <<entry.blk[1].t>>,
     utxoEntry |-> [txid |-> entry.tx.h,
                    vout |-> 1,
                    satoshis |-> BigNumber(entry.out[2].e.v, 1),
                    address |-> entry.out[2].e.a],
     pricePerToken |-> price.pricePerToken,
     scriptPrice |-> price.scriptPrice,
     sellAmountToken |-> sellAmountToken,
     receivingAddress |-> receivingAddress,
     expectedAddress |-> advancedTradeOfferAddress(tokenFactor,
         [tokenId |-> entry.slp.detail.tokenIdHex,
          sellAmountToken |-> sellAmountToken,
          pricePerToken |-> price.pricePerToken,
          receivingAddress |-> receivingAddress,
          feeAddress |-> feeAddress,
          feeDivisor |-> BigNumber(defaultNetworkSettings.feeDivisor, 1)]),
     fresh |-> TRUE]

\* the try block of _transformTx, given what its decoders return
TriedOffer(feeAddress, entry, price, receivingAddress) ==
    IF Len(entry.out) < 2 \/ Len(entry.slp.detail.outputs) < 1 THEN NotAnOffer
    ELSE IF price.threw \/ receivingAddress.threw THEN NotAnOffer
    ELSE VerifiedOffer(BuiltOffer(feeAddress, entry,
                                  BigNumber(Pow10(entry.slp.detail.decimals), 1),
                                  price,
                                  BigNumber(entry.slp.detail.outputs[1].amount, 1),
                                  receivingAddress.address))

\* _transformTx from the marked input on
TransformedInput(feeAddress, entry, exchInput) ==
    IF exchInput = <<>> THEN NotAnOffer
    ELSE IF exchInput[1].b2 = <<>> \/ exchInput[1].b3 = <<>> \/ exchInput[1].b4 = <<>>
        THEN NotAnOffer
    ELSE TriedOffer(feeAddress, entry,
                    decodePrice(entry.slp.detail.decimals,
                                [power |-> exchInput[1].b2, price |-> exchInput[1].b3]),
                    decodeAddress(exchInput[1].b4))

(* _transformTx: a verified offer, "not an offer", or an exception (the    *)
(* reads of entry.slp.detail and entry.in come before the try block).      *)
_transformTx(entry) ==
    IF "slp" \in entry.missing \/ "in" \in entry.missing THEN Threw
    ELSE TransformedInput(defaultNetworkSettings.feeAddress, entry, _findExchInput(entry))

-----------------------------------------------------------------------------
(* The records the indexing service can deliver for the token: a valid    *)
(* offer a (price 10), a valid offer b (price 5) whose marked input spends *)
(* a's output, a plain spend of b's output, a marked record whose output   *)
(* address is not the contract's, and a malformed record.                  *)

TokenId == "token"

Decimals == 1

\* base64 of the bytes 00 00 (not inverted) and 00 01 (inverted)
PowerPlain == <<0, 0, 0>>
PowerInverted == <<0, 0, 4>>

\* base64 of the 4-byte big-endian prices 1 and 2
Price1 == <<0, 0, 0, 0, 0, 16>>
Price2 == <<0, 0, 0, 0, 0, 32>>

\* base64 of two one-byte public-key hashes
Hash1 == <<0, 16>>
Hash2 == <<0, 32>>

Marker == [type |-> "object", op |-> 82]

NoMarker == [type |-> "undefined", op |-> 0]

PlainInput(h, i) == Input("", NoMarker, <<>>, <<>>, <<>>, h, i)

SlpDetail(amount) ==
    [detail |-> [tokenIdHex |-> TokenId, decimals |-> Decimals,
                 outputs |-> <<[address |-> "slp", amount |-> amount]>>]]

\* the address the contract library gives the terms of a marked input
ContractAddress(power, price, hash, amount) ==
    advancedTradeOfferAddress(BigNumber(Pow10(Decimals), 1),
        [tokenId |-> TokenId,
         sellAmountToken |-> BigNumber(amount, 1),
         pricePerToken |-> decodePrice(Decimals, [power |-> power, price |-> price]).pricePerToken,
         receivingAddress |-> decodeAddress(hash).address,
         feeAddress |-> defaultNetworkSettings.feeAddress,
         feeDivisor |-> BigNumber(defaultNetworkSettings.feeDivisor, 1)])

\* a record with one marked input spending (h2, i2), paying output 1 to address
MarkedEntry(h, power, price, hash, amount, h2, i2, address) ==
    [tx |-> [h |-> h],
     blk |-> <<>>,
     in |-> <<Input(LOKAD_ID_BASE64, Marker, power, price, hash, h2, i2)>>,
     out |-> <<[e |-> [a |-> "slp-op-return", v |-> 0]], [e |-> [a |-> address, v |-> 546]]>>,
     slp |-> SlpDetail(amount),
     missing |-> {}]

EntryA == MarkedEntry("a", PowerPlain, Price1, Hash1, 100, "x", 0,
                      ContractAddress(PowerPlain, Price1, Hash1, 100))

EntryB == MarkedEntry("b", PowerInverted, Price2, Hash2, 30, "a", 1,
                      ContractAddress(PowerInverted, Price2, Hash2, 30))

\* marked, but output 1 pays the contract of other terms; spends a's output 0
EntrySpoof == MarkedEntry("f", PowerPlain, Price2, Hash2, 30, "a", 0,
                          ContractAddress(PowerPlain, Price1, Hash2, 30))

\* an unmarked transaction spending b's output 1
EntrySpendB ==
    [tx |-> [h |-> "s"],
     blk |-> <<>>,
     in |-> <<PlainInput("b", 1)>>,
     out |-> <<[e |-> [a |-> "slp-op-return", v |-> 0]], [e |-> [a |-> "plain", v |-> 546]]>>,
     slp |-> SlpDetail(100),
     missing |-> {}]

\* malformed: no input list
EntryNoIn == [EntrySpendB EXCEPT !.tx = [h |-> "m"], !.in = <<>>, !.missing = {"in"}]

Entries == {EntryA, EntryB, EntrySpoof, EntrySpendB, EntryNoIn}

\* a valid offer c at the price of a
EntryC == MarkedEntry("c", PowerPlain, Price1, Hash2, 30, "y", 0,
                      ContractAddress(PowerPlain, Price1, Hash2, 30))

\* what the snapshot query's $match lets through: records with a marked input
SnapshotEntries == {e \in Entries : "in" \notin e.missing /\ _findExchInput(e) # <<>>}

\* sequences of at most n records of S, no transaction twice
RECURSIVE Batches(_, _)
Batches(S, n) ==
    IF n = 0 THEN {<<>>}
    ELSE LET shorter == Batches(S, n - 1)
         IN  shorter \cup {Append(b, e) : b \in shorter, e \in S}

DistinctTx(data) == \A i, j \in DOMAIN data : i # j => data[i].tx.h # data[j].tx.h

Messages ==
    {[type |-> t, data |-> d] : t \in {"mempool", "block"},
                                d \in {b \in Batches(Entries, MaxBatch) : b # <<>> /\ DistinctTx(b)}}

\* the snapshot's answer: its unconfirmed records, then its confirmed ones
\* a record as the confirmed collection holds it: in a block, with its time
Confirmed(data) == [i \in 1..Len(data) |-> [data[i] EXCEPT !.blk = <<[t |-> 1]>>]]

Snapshots ==
    UNION {{[u |-> SubSeq(b, 1, k), c |-> Confirmed(SubSeq(b, k + 1, Len(b)))] : k \in 0..Len(b)} :
        b \in {x \in Batches(SnapshotEntries, MaxSnapshot) : DistinctTx(x)}}

\* _transformTx of every record of the messages and the snapshots that has its inputs
TransformedTx ==
    [entry \in {e \in Entries \cup {EntryC} : "in" \notin e.missing}
                    \cup {Confirmed(<<e>>)[1] : e \in SnapshotEntries} |->
        _transformTx(entry)]

-----------------------------------------------------------------------------
(* Immutable's sortBy(mapper): a stable sort of the list by the mapped     *)
(* keys under the default comparator, a > b ? 1 : a < b ? -1 : 0.          *)
(* JavaScript compares two numbers by value and two BigNumber objects by   *)
(* their valueOf(), which is a string: by code units, left to right.       *)

StrLess(a, b) ==
    \E k \in 1..Len(b) :
        /\ \A j \in 1..(k - 1) : j <= Len(a) /\ a[j] = b[j]
        /\ k > Len(a) \/ a[k] < b[k]

NumLess(x, y) == x.n * y.d < y.n * x.d

(* a < b on two sort keys.  An undefined key is below and above nothing;   *)
(* the key tagged "undefinedLast" is undefined under a defaultComparator   *)
(* that puts undefined after every defined key.                            *)
JsLess(a, b) ==
    IF a.t = "undefined" \/ b.t = "undefined" \/ a.t = "undefinedLast" THEN FALSE
    ELSE IF b.t = "undefinedLast" THEN TRUE
    ELSE IF a.t = "string" THEN StrLess(a.s, b.s) ELSE NumLess(a.x, b.x)

defaultComparator(a, b) == IF JsLess(b, a) THEN 1 ELSE IF JsLess(a, b) THEN -1 ELSE 0

\* index n put into the sorted indices before it, before the keys not below its own
InsertIndexBeforeTies(before, keys, n) ==
    SelectSeq(before, LAMBDA j : defaultComparator(keys[j], keys[n]) < 0)
    \o <<n>>
    \o SelectSeq(before, LAMBDA j : defaultComparator(keys[j], keys[n]) >= 0)

\* the indices 1..n of keys in sorted order, equal keys in index order
\* index n put into the sorted indices before it, after the keys not above its own
InsertIndex(before, keys, n) ==
    SelectSeq(before, LAMBDA j : defaultComparator(keys[j], keys[n]) <= 0)
    \o <<n>>
    \o SelectSeq(before, LAMBDA j : defaultComparator(keys[j], keys[n]) > 0)

RECURSIVE SortedIndices(_, _)
SortedIndices(keys, n) ==
    IF n = 0 THEN <<>> ELSE InsertIndex(SortedIndices(keys, n - 1), keys, n)

Permuted(list, order) == [i \in 1..Len(list) |-> list[order[i]]]

sortBy(list, keys) == Permuted(list, SortedIndices(keys, Len(list)))

-----------------------------------------------------------------------------
(* MarketToken.                                                            *)

\* the mapper of the sort in _receivedTx: the BigNumber itself
ByPricePerToken(offer) == [t |-> "string", s |-> ValueOf(offer.pricePerToken)]

\* the mapper of the sort in _fetchOffers: pricePerToken.toNumber()
ByPricePerTokenNumber(offer) == [t |-> "number", x |-> offer.pricePerToken]

SortReceived(list) == sortBy(list, [i \in 1..Len(list) |-> ByPricePerToken(list[i])])

SortFetched(list) == sortBy(list, [i \in 1..Len(list) |-> ByPricePerTokenNumber(list[i])])

\* does an input of the record spend an output of the offer's transaction
SpentByAnyOutput(offer, entry) ==
    \E k \in 1..Len(entry.in) : offer.utxoEntry.txid = entry.in[k].e.h

\* does an input of the record spend the offer's output
SpentBy(offer, entry) ==
    \E k \in 1..Len(entry.in) :
        offer.utxoEntry.txid = entry.in[k].e.h /\ offer.utxoEntry.vout = entry.in[k].e.i

RemoveSpent(list, entry) == SelectSeq(list, LAMBDA offer : ~SpentBy(offer, entry))

\* every message applied, whatever its type
IsAppliedAlways(resp) == TRUE

IsApplied(resp) == resp.type = "mempool"

(* The loop of _receivedTx over the records of a message; this._offers is  *)
(* assigned as the loop goes, so an exception leaves what was done so far. *)
RECURSIVE ReceivedTxLoop(_, _)

\* one record of the loop, after its spends are removed
LoopRecord(filtered, exchInput, offer, rest) ==
    IF exchInput = <<>> THEN ReceivedTxLoop(filtered, rest)
    ELSE IF offer.threw THEN [threw |-> TRUE, offers |-> filtered]
    ELSE ReceivedTxLoop(filtered \o offer.offer, rest)

ReceivedTxLoop(list, data) ==
    IF data = <<>> THEN [threw |-> FALSE, offers |-> list]
    ELSE IF "in" \in Head(data).missing THEN [threw |-> TRUE, offers |-> list]
    ELSE LoopRecord(RemoveSpent(list, Head(data)), _findExchInput(Head(data)),
                    TransformedTx[Head(data)], Tail(data))

\* the listeners' calls, each with the book it reads through offers()
NotifyListeners(registered, book) ==
    [i \in 1..Len(registered) |-> [listener |-> registered[i], seen |-> book]]

\* the end of _receivedTx: the sorted book is stored, then the listeners run
SortedAndNotified(registered, sorted) ==
    [threw |-> FALSE, offers |-> sorted, calls |-> NotifyListeners(registered, sorted)]

AfterLoop(registered, loop) ==
    IF loop.threw THEN [threw |-> TRUE, offers |-> loop.offers, calls |-> <<>>]
    ELSE SortedAndNotified(registered, SortReceived(loop.offers))

\* _receivedTx on the book: the book it leaves and the calls it makes
_receivedTx(book, registered, resp) ==
    IF ~IsApplied(resp) THEN [threw |-> FALSE, offers |-> book, calls |-> <<>>]
    ELSE AfterLoop(registered, ReceivedTxLoop(book, resp.data))

RECURSIVE FlatMap(_)
FlatMap(transformed) ==
    IF transformed = <<>> THEN <<>>
    ELSE Head(transformed).offer \o FlatMap(Tail(transformed))

Fetched(transformed) ==
    IF \E i \in 1..Len(transformed) : transformed[i].threw
        THEN [threw |-> TRUE, offers |-> <<>>]
    ELSE [threw |-> FALSE, offers |-> SortFetched(FlatMap(transformed))]

TransformAll(offerEntries) ==
    [i \in 1..Len(offerEntries) |-> TransformedTx[offerEntries[i]]]

\* _fetchOffers once the snapshot's answer is there
_fetchOffers(tokensJson) == Fetched(TransformAll(tokensJson.u \o tokensJson.c))

Ref(offer) == [h |-> offer.utxoEntry.txid, i |-> offer.utxoEntry.vout]

Refs(list) == {Ref(list[i]) : i \in 1..Len(list)}

InputRefs(data) ==
    UNION {{data[i].in[k].e : k \in 1..Len(data[i].in)} : i \in 1..Len(data)}

Aged(list) == [i \in 1..Len(list) |-> [list[i] EXCEPT !.fresh = FALSE]]

\* is the record marked, and yet no offer
Rejected(entry) ==
    /\ "in" \notin entry.missing
    /\ _findExchInput(entry) # <<>>
    /\ TransformedTx[entry] = NotAnOffer

AnyRejected(data) == \E i \in 1..Len(data) : Rejected(data[i])

(* What the history keeps of the last handler: the kind of handler, the    *)
(* message's type, the outputs of open offers that its records spend (for  *)
(* the snapshot: the outputs the earlier messages spent), whether it       *)
(* threw, whether one of its marked records was no offer, the listeners'   *)
(* calls, the book before it (kept where the handler is to leave or to     *)
(* replace the book).                                                      *)
Idle == [op |-> "none", type |-> "", spent |-> {}, threw |-> FALSE,
         rejected |-> FALSE, calls |-> <<>>, before |-> <<>>]

\* Immutable's Map(), as the function of no key
EmptyMap == [key \in {} |-> <<>>]

NoAnswers == [tokens |-> <<>>, volume |-> <<>>]

NotAsked == [op |-> "none"]

NotDelivered == [data |-> <<>>, before |-> <<>>]

NotDecoded == [at |-> "none"]

Init ==
    /\ offers = <<>>
    /\ listeners = <<>>
    /\ pc = "fetching"
    /\ last = Idle
    /\ closed = {}
    /\ earlySpent = {}
    /\ delivered = NotDelivered
    /\ _tokenDetails = EmptyMap
    /\ _tokenLastTrades = EmptyMap
    /\ _tokenVolumes = EmptyMap
    /\ _tokenPrices = EmptyMap
    /\ _tokenPriceIncreases = EmptyMap
    /\ _tokenOverview = EmptyMap
    /\ promises = <<"pending", "pending", "pending", "pending">>
    /\ awaiting = 1
    /\ created = "pending"
    /\ metadata = {}
    /\ answers = NoAnswers
    /\ _fuse = <<>>
    /\ asked = NotAsked
    /\ codec = NotDecoded
    /\ transform = NotDecoded

\* the book and the history after a message, given what _receivedTx returns
Received(msg, done) ==
    /\ Len(done.offers) <= MaxOffers
    /\ offers' = done.offers
    /\ last' = [Idle EXCEPT !.op = "msg", !.type = msg.type,
                            !.spent = InputRefs(msg.data) \cap Refs(offers),
                            !.threw = done.threw,
                            !.rejected = AnyRejected(msg.data),
                            !.calls = done.calls,
                            !.before = IF msg.type = "mempool" THEN <<>> ELSE offers]
    /\ earlySpent' = IF pc = "fetching" /\ msg.type = "mempool" /\ ~done.threw
                        THEN earlySpent \cup InputRefs(msg.data)
                        ELSE earlySpent

\* a message of one of the two subscriptions arrives
ReceivedTxStep(msg) ==
    /\ pc \in {"fetching", "ready"}
    /\ Received(msg, _receivedTx(IF msg.type = "mempool" THEN Aged(offers) ELSE offers,
                                 listeners, msg))
    /\ UNCHANGED <<listeners, pc, overviewVars, codec, transform>>

ReceivedTx(msg) == ReceivedTxStep(msg) /\ UNCHANGED <<closed, delivered>>

\* the same, keeping the records of the message and the book it found
ReceivedTxDelivered(msg) ==
    /\ ReceivedTxStep(msg)
    /\ delivered' = [data |-> msg.data,
                     before |-> IF msg.type = "mempool" THEN Aged(offers) ELSE offers]
    /\ UNCHANGED closed

\* the same, keeping the references that left the book once create() had resolved
ReceivedTxClosing(msg) ==
    /\ ReceivedTxStep(msg)
    /\ closed' = IF pc = "ready" THEN closed \cup (Refs(offers) \ Refs(offers')) ELSE closed
    /\ UNCHANGED delivered

Resolved(done) ==
    /\ pc' = IF done.threw THEN "failed" ELSE "ready"
    /\ offers' = IF done.threw THEN offers ELSE done.offers

\* the snapshot's answer arrives and create() resolves, or rejects
FetchOffersResolve(tokensJson) ==
    /\ pc = "fetching"
    /\ Resolved(_fetchOffers(tokensJson))
    /\ last' = [Idle EXCEPT !.op = "fetch", !.before = offers, !.spent = earlySpent,
                            !.rejected = AnyRejected(tokensJson.u \o tokensJson.c)]
    /\ earlySpent' = {}
    /\ delivered' = NotDelivered
    /\ UNCHANGED <<listeners, closed, overviewVars, codec, transform>>

\* the caller registers one more listener; its name is its place in the list
AddReceivedOfferListener ==
    /\ pc = "ready"
    /\ Len(listeners) < MaxListeners
    /\ listeners' = Append(listeners, Len(listeners) + 1)
    /\ last' = Idle
    /\ delivered' = NotDelivered
    /\ UNCHANGED <<offers, pc, closed, earlySpent, overviewVars, codec, transform>>

Next ==
    \/ \E msg \in Messages : ReceivedTx(msg)
    \/ \E tokensJson \in Snapshots : FetchOffersResolve(tokensJson)
    \/ AddReceivedOfferListener

Spec == Init /\ [][Next]_vars

NextClosing ==
    \/ \E msg \in Messages : ReceivedTxClosing(msg)
    \/ \E tokensJson \in Snapshots : FetchOffersResolve(tokensJson)
    \/ AddReceivedOfferListener

SpecClosing == Init /\ [][NextClosing]_vars

NextDelivered ==
    \/ \E msg \in Messages : ReceivedTxDelivered(msg)
    \/ \E tokensJson \in Snapshots : FetchOffersResolve(tokensJson)
    \/ AddReceivedOfferListener

SpecDelivered == Init /\ [][NextDelivered]_vars

\* messages of two offers at one price and of a record that is no offer
TieMessages ==
    {[type |-> t, data |-> d] :
        t \in {"mempool", "block"},
        d \in {b \in Batches({EntryA, EntryC, EntrySpoof}, MaxBatch) : b # <<>> /\ DistinctTx(b)}}

NextTies ==
    \/ \E msg \in TieMessages : ReceivedTxDelivered(msg)
    \/ \E tokensJson \in Snapshots : FetchOffersResolve(tokensJson)
    \/ AddReceivedOfferListener

SpecTies == Init /\ [][NextTies]_vars

-----------------------------------------------------------------------------
(* MarketOverview, src/src/overview.ts.  An Immutable Map is the function  *)
(* of its keys; a value that may be undefined is the sequence of no or one *)
(* element.                                                                *)

Get(map, key) == IF key \in DOMAIN map THEN <<map[key]>> ELSE <<>>

\* Map(pairs): of two pairs of one key, the later one stays
MapOf(pairs) ==
    [key \in {pairs[i][1] : i \in 1..Len(pairs)} |->
        pairs[CHOOSE i \in 1..Len(pairs) :
                /\ pairs[i][1] = key
                /\ \A j \in 1..Len(pairs) : pairs[j][1] = key => j <= i][2]]

_fetchDetails(tokensJson) ==
    MapOf([i \in 1..Len(tokensJson) |-> <<tokensJson[i].id, tokensJson[i]>>])

\* one partition of the answer of _fetchTokens, as pairs
TokenTotalOf(entry, decoded) ==
    [numberOfOpenOffers |-> entry.numberOfOpenOffers,
     numberOfClosedOffers |-> entry.numberOfClosedOffers,
     lastTrade |-> [pricePerToken |-> decoded.pricePerToken,
                    timestamp |-> entry.lastTrade.timestamp,
                    isAccepted |-> entry.lastTrade.isAccepted]]

TokenTotals(tokenEntries) ==
    MapOf([i \in 1..Len(tokenEntries) |->
            <<tokenEntries[i]._id,
              TokenTotalOf(tokenEntries[i],
                           decodePrice(tokenEntries[i].decimals, tokenEntries[i].lastTrade))>>])

\* does decodePrice throw for the last trade of one of the entries
AnyLastTradeThrew(entries) ==
    \E i \in 1..Len(entries) : decodePrice(entries[i].decimals, entries[i].lastTrade).threw

\* does decodePrice throw for one of the entries
AnyPriceThrew(entries) ==
    \E i \in 1..Len(entries) : decodePrice(entries[i].decimals, entries[i]).threw

\* the reducer of _fetchTokens, for a key of both maps
SummedTotals(itemA, itemB) ==
    [numberOfClosedOffers |-> itemA.numberOfClosedOffers + itemB.numberOfClosedOffers,
     numberOfOpenOffers |-> itemA.numberOfOpenOffers + itemB.numberOfOpenOffers,
     lastTrade |-> IF itemA.lastTrade.timestamp = <<>> THEN itemA.lastTrade
                                                       ELSE itemB.lastTrade]

\* the reducer: (a, b) => Map(Set(keys of a and of b).map(key => ...))
ReducedTotals(a, b) ==
    [key \in DOMAIN a \cup DOMAIN b |->
        IF key \in DOMAIN a /\ key \in DOMAIN b THEN SummedTotals(a[key], b[key])
        ELSE IF key \in DOMAIN a THEN a[key] ELSE b[key]]

_fetchTokens(tokensJson) ==
    IF AnyLastTradeThrew(tokensJson.u \o tokensJson.c)
        THEN [threw |-> TRUE, map |-> EmptyMap]
        ELSE [threw |-> FALSE,
              map |-> ReducedTotals(TokenTotals(tokensJson.u), TokenTotals(tokensJson.c))]

TokenVolumes(tokenEntries) ==
    MapOf([i \in 1..Len(tokenEntries) |->
            <<tokenEntries[i]._id,
              [last24h |-> [numberOfTrades |-> tokenEntries[i].numberOfTrades,
                            volumeSatoshis |-> BigNumber(tokenEntries[i].volumeSatoshis, 1),
                            volumeTokens |-> BigNumber(tokenEntries[i].volumeTokens, 1)]]>>])

SummedVolumes(itemA, itemB) ==
    [last24h |->
        [numberOfTrades |-> itemA.last24h.numberOfTrades + itemB.last24h.numberOfTrades,
         volumeTokens |-> BNPlus(itemA.last24h.volumeTokens, itemB.last24h.volumeTokens),
         volumeSatoshis |-> BNPlus(itemA.last24h.volumeSatoshis,
                                   itemB.last24h.volumeSatoshis)]]

\* the merge keeping the first partition's volumes of an asset of both
ReducedVolumesFirst(a, b) ==
    [key \in DOMAIN a \cup DOMAIN b |-> IF key \in DOMAIN a THEN a[key] ELSE b[key]]

ReducedVolumes(a, b) ==
    [key \in DOMAIN a \cup DOMAIN b |->
        IF key \in DOMAIN a /\ key \in DOMAIN b THEN SummedVolumes(a[key], b[key])
        ELSE IF key \in DOMAIN a THEN a[key] ELSE b[key]]

_fetchVolume24h(tokensJson) ==
    ReducedVolumes(TokenVolumes(tokensJson.u), TokenVolumes(tokensJson.c))

_fetchPrice24h(tokensJson) ==
    IF AnyPriceThrew(tokensJson.c)
        THEN [threw |-> TRUE, map |-> EmptyMap]
        ELSE [threw |-> FALSE,
              map |-> MapOf([i \in 1..Len(tokensJson.c) |->
                        <<tokensJson.c[i]._id,
                          [last24h |-> [pricePerToken |->
                              decodePrice(tokensJson.c[i].decimals,
                                          tokensJson.c[i]).pricePerToken]]>>])]

\* the price increase where there is no last trade
PriceKept(ago24h) ==
    [last24h |-> [priceIncrease |-> IF ago24h # <<>> THEN <<BigNumber(0, 1)>> ELSE <<>>]]

\* the same, a price of 24h ago not asked for
PriceIncreaseOfAlwaysZero(lastTrade, ago24h) ==
    IF lastTrade # <<>> /\ ago24h # <<>>
        THEN [last24h |-> [priceIncrease |->
                <<BNMinus(BNDiv(lastTrade[1].lastTrade.pricePerToken,
                                ago24h[1].last24h.pricePerToken), BigNumber(1, 1))>>]]
        ELSE [last24h |-> [priceIncrease |-> <<BigNumber(0, 1)>>]]

\* the value _updatePriceIncrease maps a key to
PriceIncreaseOf(lastTrade, ago24h) ==
    IF lastTrade # <<>> /\ ago24h # <<>>
        THEN [last24h |-> [priceIncrease |->
                <<BNMinus(BNDiv(lastTrade[1].lastTrade.pricePerToken,
                                ago24h[1].last24h.pricePerToken), BigNumber(1, 1))>>]]
        ELSE PriceKept(ago24h)

_updatePriceIncrease(tokenLastTrades, tokenPrices) ==
    [key \in DOMAIN tokenLastTrades \cup DOMAIN tokenPrices |->
        PriceIncreaseOf(Get(tokenLastTrades, key), Get(tokenPrices, key))]

\* a market cap of zero for the asset never traded
MarketCapOrZero(details, lastTrade) ==
    IF lastTrade # <<>>
        THEN <<BNTimes(lastTrade[1].lastTrade.pricePerToken,
                       BigNumber(details.circulatingSupply, 1))>>
        ELSE <<BigNumber(0, 1)>>

\* marketCapSatoshis of the record _updateOverview builds
MarketCapOf(details, lastTrade) ==
    IF lastTrade # <<>>
        THEN <<BNTimes(lastTrade[1].lastTrade.pricePerToken,
                       BigNumber(details.circulatingSupply, 1))>>
        ELSE <<>>

\* the record _updateOverview builds for one asset
OverviewOf(key, details, lastTrade, tokenVolumes, tokenPrices, tokenPriceIncreases) ==
    [tokenId |-> key,
     decimals |-> details.decimals,
     name |-> details.name,
     symbol |-> details.symbol,
     totalNumberOfOpenOffers |->
        IF lastTrade # <<>> THEN lastTrade[1].numberOfOpenOffers ELSE 0,
     totalNumberOfClosedOffers |->
        IF lastTrade # <<>> THEN lastTrade[1].numberOfClosedOffers ELSE 0,
     totalSupplyToken |-> BigNumber(details.circulatingSupply, 1),
     marketCapSatoshis |-> MarketCapOf(details, lastTrade),
     lastTrade |->
        [isAccepted |-> IF lastTrade # <<>> THEN <<lastTrade[1].lastTrade.isAccepted>>
                                            ELSE <<>>,
         pricePerToken |-> IF lastTrade # <<>> THEN <<lastTrade[1].lastTrade.pricePerToken>>
                                               ELSE <<>>,
         timestamp |-> IF lastTrade # <<>> THEN lastTrade[1].lastTrade.timestamp ELSE <<>>],
     last24h |->
        [numberOfTrades |->
            IF tokenVolumes # <<>> THEN tokenVolumes[1].last24h.numberOfTrades ELSE 0,
         volumeSatoshis |->
            IF tokenVolumes # <<>> THEN tokenVolumes[1].last24h.volumeSatoshis
                                   ELSE BigNumber(0, 1),
         volumeTokens |->
            IF tokenVolumes # <<>> THEN tokenVolumes[1].last24h.volumeTokens
                                   ELSE BigNumber(0, 1),
         pricePerToken |->
            IF tokenPrices # <<>> THEN <<tokenPrices[1].last24h.pricePerToken>> ELSE <<>>,
         priceIncrease |->
            IF tokenPriceIncreases # <<>> THEN tokenPriceIncreases[1].last24h.priceIncrease
                                          ELSE <<>>]]

\* _updateOverview leaving out the assets that were never traded
_updateOverviewOfTraded(tokenDetails, tokenLastTrades, tokenVolumes, tokenPrices, tokenPriceIncreases) ==
    [key \in DOMAIN tokenDetails \cap DOMAIN tokenLastTrades |->
        OverviewOf(key, tokenDetails[key], Get(tokenLastTrades, key),
                   Get(tokenVolumes, key), Get(tokenPrices, key),
                   Get(tokenPriceIncreases, key))]

_updateOverview(tokenDetails, tokenLastTrades, tokenVolumes, tokenPrices, tokenPriceIncreases) ==
    [key \in DOMAIN tokenDetails |->
        OverviewOf(key, tokenDetails[key], Get(tokenLastTrades, key),
                   Get(tokenVolumes, key), Get(tokenPrices, key),
                   Get(tokenPriceIncreases, key))]

(* Map.valueSeq(): the values in the order of the map.  A map of no more   *)
(* than eight keys keeps the order in which its keys were set; the keys of *)
(* the model's answers are set in the order of AssetOrder.                 *)
AssetOrder == <<"t1", "t2">>

valueSeq(map) ==
    [i \in 1..Len(SelectSeq(AssetOrder, LAMBDA id : id \in DOMAIN map)) |->
        map[SelectSeq(AssetOrder, LAMBDA id : id \in DOMAIN map)[i]]]

(* The answers of the four services.  Each lists an asset at most once (the *)
(* metadata service lists tokens, the three queries end in a $group by the  *)
(* asset id).                                                               *)

AssetIds == {"t1", "t2"}

IdLists == {<<>>, <<"t1">>, <<"t2">>, <<"t1", "t2">>}

\* 10 and 12 as the base64 of a big-endian uint32
PriceTen == <<0, 0, 0, 0, 2, 32>>
PriceTwelve == <<0, 0, 0, 0, 3, 0>>

\* the token t2 carries the id of t1 as its name
TokenDetailsOf(id) ==
    [id |-> id, decimals |-> Decimals, name |-> "t1", symbol |-> id,
     circulatingSupply |-> IF id = "t1" THEN 1000 ELSE 21]

\* an unconfirmed last trade has no block time
TotalEntryU(id) ==
    [_id |-> id, numberOfOpenOffers |-> 1, numberOfClosedOffers |-> 0,
     lastTrade |-> [timestamp |-> <<>>, power |-> PowerInverted, price |-> Price2,
                    isAccepted |-> TRUE],
     decimals |-> Decimals]

TotalEntryC(id) ==
    [_id |-> id, numberOfOpenOffers |-> 0, numberOfClosedOffers |-> 2,
     lastTrade |-> [timestamp |-> <<5>>, power |-> PowerPlain, price |-> PriceTwelve,
                    isAccepted |-> FALSE],
     decimals |-> Decimals]

VolumeEntryU(id) ==
    [_id |-> id, volumeTokens |-> 3, volumeSatoshis |-> 300, numberOfTrades |-> 1,
     decimals |-> Decimals]

VolumeEntryC(id) ==
    [_id |-> id, volumeTokens |-> 4, volumeSatoshis |-> 500, numberOfTrades |-> 2,
     decimals |-> Decimals]

PriceEntry(id) == [_id |-> id, price |-> PriceTen, power |-> PowerPlain, decimals |-> Decimals]

DetailsAnswers == {[i \in 1..Len(ids) |-> TokenDetailsOf(ids[i])] : ids \in IdLists}

TokensAnswers ==
    {[u |-> [i \in 1..Len(a) |-> TotalEntryU(a[i])],
      c |-> [i \in 1..Len(b) |-> TotalEntryC(b[i])]] : a \in IdLists, b \in IdLists}

VolumeAnswers ==
    {[u |-> [i \in 1..Len(a) |-> VolumeEntryU(a[i])],
      c |-> [i \in 1..Len(b) |-> VolumeEntryC(b[i])]] : a \in IdLists, b \in IdLists}

PriceAnswers == {[c |-> [i \in 1..Len(ids) |-> PriceEntry(ids[i])]] : ids \in IdLists}

(* MarketOverview.create(): the four fetches are started in one go and      *)
(* settle in any order; create() awaits them in the order of its list.      *)

Settled(k, outcome) ==
    /\ promises[k] = "pending"
    /\ promises' = [promises EXCEPT ![k] = outcome]
    /\ UNCHANGED <<tokenVars, awaiting, created, _tokenPriceIncreases, _tokenOverview,
                   _fuse, asked, codec, transform>>

FetchDetailsResolve(tokensJson) ==
    /\ Settled(1, "fulfilled")
    /\ _tokenDetails' = _fetchDetails(tokensJson)
    /\ metadata' = {tokensJson[i].id : i \in 1..Len(tokensJson)}
    /\ UNCHANGED <<_tokenLastTrades, _tokenVolumes, _tokenPrices, answers>>

TokensFetched(done) ==
    /\ Settled(2, IF done.threw THEN "rejected" ELSE "fulfilled")
    /\ _tokenLastTrades' = IF done.threw THEN _tokenLastTrades ELSE done.map

FetchTokensResolve(tokensJson) ==
    /\ TokensFetched(_fetchTokens(tokensJson))
    /\ answers' = [answers EXCEPT !.tokens = <<tokensJson>>]
    /\ UNCHANGED <<_tokenDetails, _tokenVolumes, _tokenPrices, metadata>>

PricesFetched(done) ==
    /\ Settled(3, IF done.threw THEN "rejected" ELSE "fulfilled")
    /\ _tokenPrices' = IF done.threw THEN _tokenPrices ELSE done.map

FetchPrice24hResolve(tokensJson) ==
    /\ PricesFetched(_fetchPrice24h(tokensJson))
    /\ UNCHANGED <<_tokenDetails, _tokenLastTrades, _tokenVolumes, metadata, answers>>

FetchVolume24hResolve(tokensJson) ==
    /\ Settled(4, "fulfilled")
    /\ _tokenVolumes' = _fetchVolume24h(tokensJson)
    /\ answers' = [answers EXCEPT !.volume = <<tokensJson>>]
    /\ UNCHANGED <<_tokenDetails, _tokenLastTrades, _tokenPrices, metadata>>

\* fetch() or response.json() rejects
FetchReject(k) ==
    /\ Settled(k, "rejected")
    /\ UNCHANGED <<_tokenDetails, _tokenLastTrades, _tokenVolumes, _tokenPrices, metadata,
                   answers>>

\* create() resumes from an await that is not its last, or from a rejected one
AwaitPromise ==
    /\ created = "pending"
    /\ awaiting <= 4
    /\ \/ /\ promises[awaiting] = "fulfilled"
          /\ awaiting < 4
          /\ awaiting' = awaiting + 1
          /\ UNCHANGED created
       \/ /\ promises[awaiting] = "rejected"
          /\ created' = "rejected"
          /\ UNCHANGED awaiting
    /\ UNCHANGED <<tokenVars, _tokenDetails, _tokenLastTrades, _tokenVolumes, _tokenPrices,
                   _tokenPriceIncreases, _tokenOverview, promises, metadata, answers,
                   _fuse, asked, codec, transform>>

\* new Fuse(this._tokenOverview.valueSeq().toArray(), fuseOptions)
Indexed(tokenOverview) ==
    /\ _tokenOverview' = tokenOverview
    /\ _fuse' = valueSeq(tokenOverview)

Updated(tokenPriceIncreases) ==
    /\ _tokenPriceIncreases' = tokenPriceIncreases
    /\ Indexed(_updateOverview(_tokenDetails, _tokenLastTrades, _tokenVolumes,
                               _tokenPrices, tokenPriceIncreases))

\* create() awaiting all its promises but the last
CreateReturnEarly ==
    /\ created = "pending"
    /\ awaiting = 4
    /\ Updated(_updatePriceIncrease(_tokenLastTrades, _tokenPrices))
    /\ awaiting' = 5
    /\ created' = "fulfilled"
    /\ UNCHANGED <<tokenVars, _tokenDetails, _tokenLastTrades, _tokenVolumes, _tokenPrices,
                   promises, metadata, answers, asked, codec, transform>>

\* create() resumes from its last await, updates the two derived maps and returns
CreateReturn ==
    /\ created = "pending"
    /\ awaiting = 4
    /\ promises[4] = "fulfilled"
    /\ Updated(_updatePriceIncrease(_tokenLastTrades, _tokenPrices))
    /\ awaiting' = 5
    /\ created' = "fulfilled"
    /\ UNCHANGED <<tokenVars, _tokenDetails, _tokenLastTrades, _tokenVolumes, _tokenPrices,
                   promises, metadata, answers, asked, codec, transform>>

NextOverview ==
    \/ \E tokensJson \in DetailsAnswers : FetchDetailsResolve(tokensJson)
    \/ \E tokensJson \in TokensAnswers : FetchTokensResolve(tokensJson)
    \/ \E tokensJson \in PriceAnswers : FetchPrice24hResolve(tokensJson)
    \/ \E tokensJson \in VolumeAnswers : FetchVolume24hResolve(tokensJson)
    \/ \E k \in 1..4 : FetchReject(k)
    \/ AwaitPromise
    \/ CreateReturn

SpecOverview == Init /\ [][NextOverview]_vars

-----------------------------------------------------------------------------
(* The queries on the MarketOverview that create() returned.               *)

MaxSkip == 1
MaxLimit == 2

TokenSortByKey ==
    {"totalNumberOfOpenOffers", "totalNumberOfClosedOffers", "pricePerToken",
     "marketCapSatoshis", "volumeTokens", "volumeSatoshis", "priceIncrease"}

\* the sorter tokens() picks: the field of the record, undefined as <<>>
Sorter(sortByKey, overview) ==
    CASE sortByKey = "totalNumberOfOpenOffers" ->
            <<BigNumber(overview.totalNumberOfOpenOffers, 1)>>
      [] sortByKey = "totalNumberOfClosedOffers" ->
            <<BigNumber(overview.totalNumberOfClosedOffers, 1)>>
      [] sortByKey = "pricePerToken" -> overview.lastTrade.pricePerToken
      [] sortByKey = "marketCapSatoshis" -> overview.marketCapSatoshis
      [] sortByKey = "volumeTokens" -> <<overview.last24h.volumeTokens>>
      [] sortByKey = "volumeSatoshis" -> <<overview.last24h.volumeSatoshis>>
      [] sortByKey = "priceIncrease" -> overview.last24h.priceIncrease

(* applyFactor: the value times 1 or -1, or undefined.  undefinedLast says *)
(* which defaultComparator the Immutable of the build has: the one that    *)
(* compares with > and <, or the one that puts undefined last.             *)
applyFactor(undefinedLast, value, factor) ==
    IF value # <<>> THEN [t |-> "number", x |-> BNTimes(value[1], BigNumber(factor, 1))]
    ELSE [t |-> IF undefinedLast THEN "undefinedLast" ELSE "undefined"]

\* skip(skip).take(limit)
SkipTake(list, skip, limit) ==
    SubSeq(list, skip + 1, IF skip + limit < Len(list) THEN skip + limit ELSE Len(list))

Sorted(undefinedLast, list, sortByKey, factor) ==
    sortBy(list, [i \in 1..Len(list) |->
                    applyFactor(undefinedLast, Sorter(sortByKey, list[i]), factor)])

tokens(undefinedLast, tokenOverview, sortByKey, skip, limit, ascending) ==
    IF sortByKey \notin TokenSortByKey THEN [threw |-> TRUE, list |-> <<>>]
    ELSE [threw |-> FALSE,
          list |-> SkipTake(Sorted(undefinedLast, valueSeq(tokenOverview), sortByKey,
                                   IF ascending THEN 1 ELSE -1),
                            skip, limit)]

\* the caller asks for a page of the sorted overview
Tokens(undefinedLast, sortByKey, skip, limit, ascending) ==
    /\ created = "fulfilled"
    /\ asked' = [op |-> "tokens", undefinedLast |-> undefinedLast, sortByKey |-> sortByKey,
                 skip |-> skip, limit |-> limit, ascending |-> ascending,
                 returned |-> tokens(undefinedLast, _tokenOverview, sortByKey, skip, limit,
                                     ascending)]
    /\ UNCHANGED <<tokenVars, _tokenDetails, _tokenLastTrades, _tokenVolumes, _tokenPrices,
                   _tokenPriceIncreases, _tokenOverview, promises, awaiting, created,
                   metadata, answers, _fuse, codec, transform>>

(* Fuse.search(query) over the indexed records: the records it returns     *)
(* hold at least those whose symbol or name is the query itself.           *)
FuseSearch(index, query) ==
    SelectSeq(index, LAMBDA overview : overview.symbol = query \/ overview.name = query)

\* searchTokens going to the fuzzy index whatever the query
searchTokensFuzzy(tokenOverview, index, query) ==
    [searched |-> TRUE, list |-> FuseSearch(index, query)]

searchTokens(tokenOverview, index, query) ==
    IF Get(tokenOverview, query) # <<>>
        THEN [searched |-> FALSE, list |-> <<tokenOverview[query]>>]
        ELSE [searched |-> TRUE, list |-> FuseSearch(index, query)]

Queries == {"t1", "t2", "zz"}

SearchTokens(query) ==
    /\ created = "fulfilled"
    /\ asked' = [op |-> "searchTokens", query |-> query,
                 returned |-> searchTokens(_tokenOverview, _fuse, query)]
    /\ UNCHANGED <<tokenVars, _tokenDetails, _tokenLastTrades, _tokenVolumes, _tokenPrices,
                   _tokenPriceIncreases, _tokenOverview, promises, awaiting, created,
                   metadata, answers, _fuse, codec, transform>>

\* the answers under which the queries are asked: trade totals of confirmed
\* trades only, and the 24h volumes of no asset or of both
QueriedTokensAnswers == {tokensJson \in TokensAnswers : tokensJson.u = <<>>}

QueriedVolumeAnswers ==
    {tokensJson \in VolumeAnswers :
        \/ tokensJson.u = <<>> /\ tokensJson.c = <<>>
        \/ Len(tokensJson.u) = 1 /\ Len(tokensJson.c) = 1 /\ tokensJson.u[1]._id = "t1"
                /\ tokensJson.c[1]._id = "t2"}

NextQueries ==
    \/ \E tokensJson \in DetailsAnswers : FetchDetailsResolve(tokensJson)
    \/ \E tokensJson \in QueriedTokensAnswers : FetchTokensResolve(tokensJson)
    \/ \E tokensJson \in PriceAnswers : FetchPrice24hResolve(tokensJson)
    \/ \E tokensJson \in QueriedVolumeAnswers : FetchVolume24hResolve(tokensJson)
    \/ \E k \in 1..4 : FetchReject(k)
    \/ AwaitPromise
    \/ CreateReturn
    \/ \E undefinedLast \in BOOLEAN, sortByKey \in TokenSortByKey \cup {"other"},
          skip \in 0..MaxSkip, limit \in (MaxLimit - 1)..MaxLimit, ascending \in BOOLEAN :
            Tokens(undefinedLast, sortByKey, skip, limit, ascending)
    \/ \E query \in Queries : SearchTokens(query)

SpecQueries == Init /\ [][NextQueries]_vars

-----------------------------------------------------------------------------
(* decodePrice, src/unnamed/part_001, called on the arguments a database   *)
(* record can carry: base64 strings of any length, as sextets.             *)

MaxDecimals == 2

\* power strings: of no byte, [0x00], [0x00,0x01], [0x01,0x00], [0x00,0x01,0x00],
\* and one that atob rejects
PowerStrings == {<<>>, <<0, 0>>, PowerInverted, <<0, 16, 0>>, <<0, 0, 4, 0>>, <<0>>}

\* price strings: of no byte, 3 bytes, 4 bytes (0, 1, 2, 256, 65536) and 5 bytes
PriceStrings ==
    {<<>>, <<0, 0, 0, 16>>, <<0, 0, 0, 0, 0, 0>>, Price1, Price2, <<0, 0, 0, 1, 0, 0>>,
     <<0, 0, 4, 0, 0, 0>>, <<0, 0, 0, 0, 0, 32, 0>>}

InitCodec ==
    /\ offers = <<>>
    /\ listeners = <<>>
    /\ pc = "fetching"
    /\ last = Idle
    /\ closed = {}
    /\ earlySpent = {}
    /\ delivered = NotDelivered
    /\ _tokenDetails = EmptyMap
    /\ _tokenLastTrades = EmptyMap
    /\ _tokenVolumes = EmptyMap
    /\ _tokenPrices = EmptyMap
    /\ _tokenPriceIncreases = EmptyMap
    /\ _tokenOverview = EmptyMap
    /\ promises = <<"pending", "pending", "pending", "pending">>
    /\ awaiting = 1
    /\ created = "pending"
    /\ metadata = {}
    /\ answers = NoAnswers
    /\ _fuse = <<>>
    /\ asked = NotAsked
    /\ \E decimals \in 0..MaxDecimals, power \in PowerStrings, price \in PriceStrings :
            codec = [at |-> "called", decimals |-> decimals,
                     offer |-> [power |-> power, price |-> price]]
    /\ transform = NotDecoded

\* decodePrice(decimals, offer) runs and returns or throws
DecodePrice ==
    /\ codec.at = "called"
    /\ codec' = [at |-> "returned", decimals |-> codec.decimals, offer |-> codec.offer,
                 result |-> decodePrice(codec.decimals, codec.offer)]
    /\ UNCHANGED <<tokenVars, overviewVars, transform>>

NextCodec == DecodePrice

SpecCodec == InitCodec /\ [][NextCodec]_vars

-----------------------------------------------------------------------------
(* _transformTx, src/src/token.ts, called on the records the indexing      *)
(* service can deliver: a marked record with each of its three fields      *)
(* present, absent or not base64, with or without its output 1, its slp    *)
(* details and its input list; and an unmarked record.                     *)

RawRecord(base, b2, b3, b4, outputs, missing) ==
    [base EXCEPT !.in = <<[base.in[1] EXCEPT !.b2 = b2, !.b3 = b3, !.b4 = b4]>>,
                 !.out = SubSeq(base.out, 1, outputs),
                 !.missing = missing]

RawRecords ==
    {RawRecord(base, b2, b3, b4, outputs, missing) :
        base \in {EntryA, EntrySpoof, EntrySpendB},
        b2 \in {<<>>, PowerPlain, <<0>>},
        b3 \in {<<>>, Price1, <<0>>, <<0, 0>>},
        b4 \in {<<>>, Hash1, <<0>>},
        outputs \in {1, 2},
        missing \in {{}, {"slp"}, {"in"}}}

InitTransform ==
    /\ offers = <<>>
    /\ listeners = <<>>
    /\ pc = "fetching"
    /\ last = Idle
    /\ closed = {}
    /\ earlySpent = {}
    /\ delivered = NotDelivered
    /\ _tokenDetails = EmptyMap
    /\ _tokenLastTrades = EmptyMap
    /\ _tokenVolumes = EmptyMap
    /\ _tokenPrices = EmptyMap
    /\ _tokenPriceIncreases = EmptyMap
    /\ _tokenOverview = EmptyMap
    /\ promises = <<"pending", "pending", "pending", "pending">>
    /\ awaiting = 1
    /\ created = "pending"
    /\ metadata = {}
    /\ answers = NoAnswers
    /\ _fuse = <<>>
    /\ asked = NotAsked
    /\ codec = NotDecoded
    /\ \E entry \in RawRecords : transform = [at |-> "called", entry |-> entry]

\* _transformTx(entry) runs and returns or throws
TransformTx ==
    /\ transform.at = "called"
    /\ transform' = [at |-> "returned", entry |-> transform.entry,
                     result |-> _transformTx(transform.entry)]
    /\ UNCHANGED <<tokenVars, overviewVars, codec>>

SpecTransform == InitTransform /\ [][TransformTx]_vars

-----------------------------------------------------------------------------
(* Properties of MarketToken.                                              *)

Applied == last.op = "msg" /\ last.type = "mempool" /\ ~last.threw

NumAscending(list) ==
    \A i \in 1..(Len(list) - 1) : ~NumLess(list[i + 1].pricePerToken, list[i].pricePerToken)

\* C1: once create() has resolved, no two offers of the book have the same
\* backing output (txid, vout).
C1_NoDuplicateOutputs ==
    pc = "ready" =>
        \A i, j \in 1..Len(offers) : i # j => Ref(offers[i]) # Ref(offers[j])

\* C2: after the snapshot load and after every message handled to its end,
\* the book is ascending by the numeric value of pricePerToken.
C2_PriceAscending ==
    (pc = "ready" /\ ~last.threw) => NumAscending(offers)

\* C3: after a mempool message, no offer that was open before the message and
\* whose output an input of the message spends is still in the book.
C3_SpentOffersRemoved ==
    (pc = "ready" /\ last.op = "msg" /\ last.type = "mempool") =>
        \A i \in 1..Len(offers) : ~offers[i].fresh => Ref(offers[i]) \notin last.spent

\* C4: an output that a message removed from the book is in no later book.
C4_ClosedIsTerminal ==
    \A i \in 1..Len(offers) : Ref(offers[i]) \notin closed

\* C5: when create() resolves, the offers the earlier messages inserted are in
\* the book and no offer whose output an earlier message spent is.
C5_EarlyEffectsKept ==
    (last.op = "fetch" /\ pc = "ready") =>
        /\ Refs(last.before) \subseteq Refs(offers)
        /\ Refs(offers) \cap last.spent = {}

\* C6: a mempool message calls every registered listener once, in
\* registration order, each reading the whole book of after the message,
\* sorted by price.
C6_ListenersNotified ==
    (last.op = "msg" /\ last.type = "mempool") =>
        /\ Len(last.calls) = Len(listeners)
        /\ \A i \in 1..Len(last.calls) :
              /\ last.calls[i].listener = listeners[i]
              /\ last.calls[i].seen = offers
              /\ NumAscending(last.calls[i].seen)

\* C7: a message whose type is not "mempool" leaves the book as it was.
C7_OtherTypesIgnored ==
    (last.op = "msg" /\ last.type # "mempool") => offers = last.before

\* C7 happens: a "block" message held a marked record and an input spending
\* the output of an open offer, and the offer is still there.
C7_Witness ==
    /\ last.op = "msg"
    /\ last.type = "block"
    /\ last.rejected
    /\ \E i \in 1..Len(offers) : Ref(offers[i]) \in last.spent

\* the contract address of a well-formed record's first input, recomputed
RecomputedAddress(entry) ==
    ContractAddress(entry.in[1].b2, entry.in[1].b3, entry.in[1].b4,
                    entry.slp.detail.outputs[1].amount)

MarkedRecords == {e \in Entries : "in" \notin e.missing /\ _findExchInput(e) # <<>>}

\* C8: every offer of the book comes from a record whose recomputed contract
\* address is the address of its output 1, and a record whose recomputed
\* address differs is no offer.
C8_OffersVerified ==
    /\ \A i \in 1..Len(offers) :
          /\ offers[i].expectedAddress = offers[i].utxoEntry.address
          /\ \E e \in MarkedRecords :
                /\ e.tx.h = offers[i].utxoEntry.txid
                /\ e.out[2].e.a = offers[i].utxoEntry.address
                /\ RecomputedAddress(e) = e.out[2].e.a
    /\ \A e \in MarkedRecords :
          RecomputedAddress(e) # e.out[2].e.a =>
              \A i \in 1..Len(offers) : offers[i].utxoEntry.txid # e.tx.h

\* C8 happens: the last message held a marked record that was refused, and
\* the book holds a verified offer.
C8_Witness ==
    /\ Applied
    /\ last.rejected
    /\ offers # <<>>

-----------------------------------------------------------------------------
(* Properties of a mempool message as a whole.                             *)

Marked(entry) == "in" \notin entry.missing /\ _findExchInput(entry) # <<>>

Malformed(entry) == entry.missing # {} \/ Len(entry.out) < 2

SpentByAny(offer, data) ==
    \E i \in 1..Len(data) : "in" \notin data[i].missing /\ SpentBy(offer, data[i])

\* the valid offers of the marked records, in the order of the records
ValidOffers(data) ==
    FlatMap([i \in 1..Len(data) |-> IF Marked(data[i]) THEN TransformedTx[data[i]]
                                                      ELSE NotAnOffer])

\* the book found minus what any record spends, plus the valid offers, sorted
TwoPhase(before, data) ==
    SortReceived(SelectSeq(before, LAMBDA offer : ~SpentByAny(offer, data)) \o ValidOffers(data))

Reordered(data) ==
    {[i \in 1..Len(data) |-> data[p[i]]] : p \in Permutations(1..Len(data))}

\* C17: the book after a mempool message of well-formed records is the book
\* before it without the offers that an input of any of its records spends,
\* with the valid offers of its marked records added, sorted; it is the same
\* for every order of the records; and every offer it adds is of a marked
\* record.
C17_TwoPhase ==
    (last.op = "msg" /\ last.type = "mempool"
        /\ \A k \in 1..Len(delivered.data) : ~Malformed(delivered.data[k])) =>
        /\ offers = TwoPhase(delivered.before, delivered.data)
        /\ \A data \in Reordered(delivered.data) :
              _receivedTx(delivered.before, listeners,
                          [type |-> "mempool", data |-> data]).offers = offers
        /\ \A i \in 1..Len(offers) :
              offers[i].fresh =>
                  \E k \in 1..Len(delivered.data) :
                      /\ Marked(delivered.data[k])
                      /\ delivered.data[k].tx.h = offers[i].utxoEntry.txid

\* C18: a mempool message with a malformed record does not throw, leaves the
\* book that the message without the malformed records leaves, and calls
\* every listener.
C18_MalformedSkipped ==
    (last.op = "msg" /\ last.type = "mempool"
        /\ \E i \in 1..Len(delivered.data) : Malformed(delivered.data[i])) =>
        /\ ~last.threw
        /\ Len(last.calls) = Len(listeners)
        /\ offers = _receivedTx(delivered.before, listeners,
                                [type |-> "mempool",
                                 data |-> SelectSeq(delivered.data,
                                                    LAMBDA entry : ~Malformed(entry))]).offers

-----------------------------------------------------------------------------
(* Properties of MarketOverview.                                           *)

\* last / ago - 1 of two rationals, in lowest terms
QuotientLessOne(lastPrice, price24hAgo) ==
    BigNumber(lastPrice.n * price24hAgo.d - price24hAgo.n * lastPrice.d,
              lastPrice.d * price24hAgo.n)

ExpectedDelta(lastTrade, ago24h) ==
    IF lastTrade # <<>> /\ ago24h # <<>>
        THEN <<QuotientLessOne(lastTrade[1].lastTrade.pricePerToken,
                               ago24h[1].last24h.pricePerToken)>>
    ELSE IF ago24h # <<>> THEN <<BigNumber(0, 1)>>
    ELSE <<>>

\* C9: once create() has returned, the price delta of every asset is
\* lastPrice / price24hAgo - 1 where the asset has a last trade and a price of
\* 24h ago, 0 where it has the price of 24h ago alone, and unknown otherwise.
C9_PriceDelta ==
    created = "fulfilled" =>
        \A key \in AssetIds :
            /\ key \in DOMAIN _tokenOverview =>
                  _tokenOverview[key].last24h.priceIncrease =
                      ExpectedDelta(Get(_tokenLastTrades, key), Get(_tokenPrices, key))
            /\ key \in DOMAIN _tokenPriceIncreases =>
                  _tokenPriceIncreases[key].last24h.priceIncrease =
                      ExpectedDelta(Get(_tokenLastTrades, key), Get(_tokenPrices, key))

\* C9 happens: t1 was last traded at 12 units after 10 units a day ago, a delta
\* of 0.2, and t2 has a last trade and no price of a day ago.
C9_Witness ==
    /\ created = "fulfilled"
    /\ DOMAIN _tokenOverview = {"t1", "t2"}
    /\ _tokenOverview["t1"].last24h.pricePerToken # <<>>
    /\ _tokenOverview["t1"].last24h.priceIncrease = <<[n |-> 1, d |-> 5]>>
    /\ _tokenOverview["t2"].lastTrade.pricePerToken # <<>>
    /\ _tokenOverview["t2"].last24h.pricePerToken = <<>>
    /\ _tokenOverview["t2"].last24h.priceIncrease = <<>>

MetadataOnly(key) ==
    /\ key \in metadata
    /\ key \notin DOMAIN _tokenLastTrades
    /\ key \notin DOMAIN _tokenVolumes
    /\ key \notin DOMAIN _tokenPrices

\* C10: once create() has returned, the overview holds exactly the assets of
\* the metadata answer, and an asset of the metadata alone has counts and
\* volumes of zero and no last trade, market cap, price of 24h ago or delta.
C10_OverviewOfMetadata ==
    created = "fulfilled" =>
        /\ DOMAIN _tokenOverview = metadata
        /\ \A key \in AssetIds : MetadataOnly(key) =>
              /\ key \in DOMAIN _tokenOverview
              /\ _tokenOverview[key].totalNumberOfOpenOffers = 0
              /\ _tokenOverview[key].totalNumberOfClosedOffers = 0
              /\ _tokenOverview[key].last24h.numberOfTrades = 0
              /\ _tokenOverview[key].last24h.volumeTokens = BigNumber(0, 1)
              /\ _tokenOverview[key].last24h.volumeSatoshis = BigNumber(0, 1)
              /\ _tokenOverview[key].lastTrade.pricePerToken = <<>>
              /\ _tokenOverview[key].marketCapSatoshis = <<>>
              /\ _tokenOverview[key].last24h.pricePerToken = <<>>
              /\ _tokenOverview[key].last24h.priceIncrease = <<>>

\* C10 happens: create() returned with t2 in the metadata alone, beside the
\* traded t1.
C10_Witness ==
    /\ created = "fulfilled"
    /\ MetadataOnly("t2")
    /\ "t2" \in DOMAIN _tokenOverview
    /\ "t1" \in DOMAIN _tokenLastTrades
    /\ "t1" \in DOMAIN _tokenOverview

\* C12: create() does not reject when one of its four fetches fails.
C12_CreateSurvivesFailure ==
    (\E k \in 1..4 : promises[k] = "rejected") => created # "rejected"

\* C16: once create() has returned, the market cap of every record is its
\* last-trade price times the circulating supply of the metadata where it has
\* a last-trade price, and unknown where it has none.
C16_MarketCap ==
    created = "fulfilled" =>
        \A key \in DOMAIN _tokenOverview :
            /\ key \in DOMAIN _tokenLastTrades =>
                  /\ _tokenOverview[key].lastTrade.pricePerToken # <<>>
                  /\ _tokenOverview[key].marketCapSatoshis =
                        <<BigNumber(_tokenOverview[key].lastTrade.pricePerToken[1].n
                                        * _tokenDetails[key].circulatingSupply,
                                    _tokenOverview[key].lastTrade.pricePerToken[1].d)>>
            /\ key \notin DOMAIN _tokenLastTrades =>
                  /\ _tokenOverview[key].lastTrade.pricePerToken = <<>>
                  /\ _tokenOverview[key].marketCapSatoshis = <<>>

\* C16 happens: t1, of supply 1000, was last traded at 12 units, and t2 was
\* never traded.
C16_Witness ==
    /\ created = "fulfilled"
    /\ DOMAIN _tokenOverview = {"t1", "t2"}
    /\ _tokenOverview["t1"].marketCapSatoshis = <<[n |-> 12 * Pow10(Decimals) * 1000, d |-> 1]>>
    /\ _tokenOverview["t2"].marketCapSatoshis = <<>>

Listing(partition, key) == \E i \in 1..Len(partition) : partition[i]._id = key

EntryOf(partition, key) ==
    partition[CHOOSE i \in 1..Len(partition) : partition[i]._id = key]

\* the merged entry against the entries of the two partitions
MergedOf(merged, first, second) ==
    /\ merged.numberOfOpenOffers = first.numberOfOpenOffers + second.numberOfOpenOffers
    /\ merged.numberOfClosedOffers = first.numberOfClosedOffers + second.numberOfClosedOffers
    /\ (first.lastTrade.timestamp # <<>> \/ second.lastTrade.timestamp # <<>>) =>
            merged.lastTrade.timestamp # <<>>
    /\ (first.lastTrade.timestamp # <<>> /\ second.lastTrade.timestamp # <<>>) =>
            /\ merged.lastTrade.timestamp = second.lastTrade.timestamp
            /\ merged.lastTrade.isAccepted = second.lastTrade.isAccepted

\* C19: the merged trade totals hold the assets of either partition; an asset
\* of both has the sums of the counts, and a last trade with a timestamp
\* where one of the two entries has one, the second partition's where both have.
C19_TotalsMerged ==
    (promises[2] = "fulfilled" /\ answers.tokens # <<>>) =>
        \A key \in AssetIds :
            /\ key \in DOMAIN _tokenLastTrades <=>
                  Listing(answers.tokens[1].u, key) \/ Listing(answers.tokens[1].c, key)
            /\ (Listing(answers.tokens[1].u, key) /\ Listing(answers.tokens[1].c, key)) =>
                  MergedOf(_tokenLastTrades[key], EntryOf(answers.tokens[1].u, key),
                           EntryOf(answers.tokens[1].c, key))

Derived ==
    \/ awaiting = 5
    \/ _tokenPriceIncreases # EmptyMap
    \/ _tokenOverview # EmptyMap
    \/ _fuse # <<>>

\* C20: the price increases and the overview are computed only when none of
\* the four fetches is pending any more.
C20_DerivedAfterFetches ==
    Derived => \A k \in 1..4 : promises[k] # "pending"

\* C20 happens: create() has computed price increases and an overview.
C20_Witness ==
    /\ awaiting = 5
    /\ _tokenPriceIncreases # EmptyMap
    /\ _tokenOverview # EmptyMap
    /\ \A k \in 1..4 : promises[k] = "fulfilled"

-----------------------------------------------------------------------------
(* Properties of decodePrice.                                              *)

PriceBytes == decodeBase64(codec.offer.price).bytes

PowerBytes == decodeBase64(codec.offer.power).bytes

\* the first four bytes as a big-endian number
BigEndian(bytes) ==
    bytes[1] * 16777216 + bytes[2] * 65536 + bytes[3] * 256 + bytes[4]

Inverted(bytes) == Len(bytes) = 2 /\ bytes[2] = 1

\* C14: decodePrice throws, and returns no price, when the decoded price
\* buffer is not of exactly 4 bytes, and when the script price is zero and
\* the power buffer marks the price as inverted.
C14_BadPriceRejected ==
    codec.at = "returned" =>
        /\ Len(PriceBytes) # 4 => codec.result.threw
        /\ (Len(PriceBytes) = 4 /\ BigEndian(PriceBytes) = 0 /\ Inverted(PowerBytes)) =>
                codec.result.threw

\* C15: a price decodePrice returns is the big-endian number of the price
\* buffer times 10^decimals, or 10^decimals divided by that number when the
\* power buffer is of exactly 2 bytes with the second byte 1, and only then.
C15_PriceDecoded ==
    (codec.at = "returned" /\ ~codec.result.threw) =>
        /\ codec.result.scriptPrice = [n |-> BigEndian(PriceBytes), d |-> 1]
        /\ IF Inverted(PowerBytes)
              THEN IF BigEndian(PriceBytes) = 0
                      THEN codec.result.pricePerToken.d = 0
                      ELSE /\ codec.result.pricePerToken.d > 0
                           /\ codec.result.pricePerToken.n * BigEndian(PriceBytes) =
                                  Pow10(codec.decimals) * codec.result.pricePerToken.d
              ELSE codec.result.pricePerToken =
                        [n |-> BigEndian(PriceBytes) * Pow10(codec.decimals), d |-> 1]

\* C15 happens: power [0x00,0x01] and price 2 with one decimal give 10/2.
C15_Witness ==
    /\ codec.at = "returned"
    /\ ~codec.result.threw
    /\ PowerBytes = <<0, 1>>
    /\ PriceBytes = <<0, 0, 0, 2>>
    /\ codec.decimals = 1
    /\ codec.result.pricePerToken = [n |-> 5, d |-> 1]


-----------------------------------------------------------------------------
(* Properties of the queries.                                              *)

Known(sortByKey, overview) == Sorter(sortByKey, overview) # <<>>

\* may the record first come before the record second in the chosen direction
InDirection(ascending, first, second) ==
    IF ascending THEN ~NumLess(second[1], first[1]) ELSE ~NumLess(first[1], second[1])

C13_ExactIdFirst ==
    asked.op = "searchTokens" =>
        IF asked.query \in DOMAIN _tokenOverview
            THEN /\ asked.returned.list = <<_tokenOverview[asked.query]>>
                 /\ ~asked.returned.searched
            ELSE asked.returned.searched

\* C13 happens: the query is the id of t1 and the name of t2, both indexed.
C13_Witness ==
    /\ asked.op = "searchTokens"
    /\ asked.query = "t1"
    /\ DOMAIN _tokenOverview = {"t1", "t2"}
    /\ \E i \in 1..Len(_fuse) : _fuse[i].tokenId = "t2" /\ _fuse[i].name = asked.query
    /\ Len(asked.returned.list) = 1
    /\ asked.returned.list[1].tokenId = "t1"

-----------------------------------------------------------------------------
(* Properties of the volume merge.                                         *)

\* the volumes of one entry of the answer
VolumesOf(numberOfTrades, volumeTokens, volumeSatoshis) ==
    [last24h |-> [numberOfTrades |-> numberOfTrades,
                  volumeSatoshis |-> [n |-> volumeSatoshis, d |-> 1],
                  volumeTokens |-> [n |-> volumeTokens, d |-> 1]]]

\* the volumes the claim gives an asset of both partitions
VolumesOfBoth(first, second) ==
    VolumesOf(first.numberOfTrades + second.numberOfTrades,
              first.volumeTokens + second.volumeTokens,
              first.volumeSatoshis + second.volumeSatoshis)

VolumesOfOne(entry) == VolumesOf(entry.numberOfTrades, entry.volumeTokens, entry.volumeSatoshis)

\* the merged volumes of one asset against the two partitions of the answer
VolumeMerged(merged, u, c, key) ==
    /\ key \in DOMAIN merged <=> Listing(u, key) \/ Listing(c, key)
    /\ (Listing(u, key) /\ Listing(c, key)) =>
            merged[key] = VolumesOfBoth(EntryOf(u, key), EntryOf(c, key))
    /\ (Listing(u, key) /\ ~Listing(c, key)) => merged[key] = VolumesOfOne(EntryOf(u, key))
    /\ (~Listing(u, key) /\ Listing(c, key)) => merged[key] = VolumesOfOne(EntryOf(c, key))

\* C22: the merged 24h volumes hold the assets of either partition, with the
\* sums of trade count, token volume and value volume for an asset of both
\* and the partition's own values for an asset of one; the answer with its
\* two partitions swapped gives the same map.
C22_VolumesAdditive ==
    (promises[4] = "fulfilled" /\ answers.volume # <<>>) =>
        /\ \A key \in AssetIds :
              VolumeMerged(_tokenVolumes, answers.volume[1].u, answers.volume[1].c, key)
        /\ _fetchVolume24h([u |-> answers.volume[1].c, c |-> answers.volume[1].u])
                = _tokenVolumes

\* C22 happens: t1 is in both partitions (1 + 2 trades, 3 + 4 tokens,
\* 300 + 500 satoshis) and t2 in the second only.
C22_Witness ==
    /\ promises[4] = "fulfilled"
    /\ answers.volume # <<>>
    /\ Listing(answers.volume[1].u, "t1") /\ Listing(answers.volume[1].c, "t1")
    /\ ~Listing(answers.volume[1].u, "t2") /\ Listing(answers.volume[1].c, "t2")
    /\ _tokenVolumes["t1"] = VolumesOf(3, 7, 800)
    /\ _tokenVolumes["t2"] = VolumesOf(2, 4, 500)

-----------------------------------------------------------------------------
(* Properties of the backing output.                                       *)

\* is the offer the one _transformTx makes of the record with its txid
OfferOfItsTx(offer) ==
    \E entry \in Entries :
        /\ entry.tx.h = offer.utxoEntry.txid
        /\ TransformedTx[entry].offer # <<>>
        /\ offer.utxoEntry.address = entry.out[2].e.a
        /\ offer.pricePerToken = TransformedTx[entry].offer[1].pricePerToken

\* is the offer, as it was before the message, in the book after it
KeptByMessage(offer) == \E i \in 1..Len(offers') : offers'[i] = [offer EXCEPT !.fresh = FALSE]

\* a mempool message leaves the offers whose output none of its inputs names
UnspentKept ==
    (last'.op = "msg" /\ last'.type = "mempool") =>
        \A j \in 1..Len(offers) :
            [h |-> offers[j].utxoEntry.txid, i |-> 1] \notin last'.spent =>
                KeptByMessage(offers[j])

BackedByOutputOne ==
    \A i \in 1..Len(offers) : offers[i].utxoEntry.vout = 1 /\ OfferOfItsTx(offers[i])

\* C25: every offer of the book is backed by output 1 of the transaction
\* whose hash is its txid, and a mempool message none of whose inputs names
\* that output leaves the offer in the book.
C25_BackedByOutputOne == []BackedByOutputOne /\ [][UnspentKept]_vars

\* C25 happens: a mempool message held the marked record that spends output 0
\* of a's transaction (the one record that is marked and no offer), and a's
\* offer, open before the message, is still in the book.
C25_Witness ==
    /\ last.op = "msg" /\ last.type = "mempool"
    /\ last.rejected
    /\ \E i \in 1..Len(offers) : offers[i].utxoEntry.txid = "a" /\ ~offers[i].fresh

-----------------------------------------------------------------------------
(* Properties of offers().                                                 *)

\* C24: the book that offers() returns after a mempool message is the book
\* of before the message when the message was not processed to its end, and
\* is sorted as _receivedTx sorts it; the book a listener read is that book.
C24_SnapshotRead ==
    (last.op = "msg" /\ last.type = "mempool") =>
        /\ last.threw => offers = delivered.before
        /\ SortReceived(offers) = offers
        /\ \A i \in 1..Len(last.calls) : last.calls[i].seen = offers

-----------------------------------------------------------------------------
(* Properties of the order of offers at one price.                         *)

SamePrice(a, b) == a.pricePerToken = b.pricePerToken

\* the place in the message of the record that made the offer
RecordOf(offer) ==
    CHOOSE k \in 1..Len(delivered.data) : delivered.data[k].tx.h = offer.utxoEntry.txid

\* the offers of the list at the price of the offer, in the order of the list
AtPriceOf(list, offer) == SelectSeq(list, LAMBDA other : SamePrice(other, offer))

\* the offers of before the message that the book still holds
StillOpen(list) ==
    SelectSeq(list, LAMBDA offer : \E i \in 1..Len(offers) : offers[i] = offer)

Old(list) == SelectSeq(list, LAMBDA offer : ~offer.fresh)

\* C23: after a mempool message, the offers at one price that were in the
\* book before it are in the order they had, every offer the message
\* inserted is after them, and the inserted ones are in the order of their
\* records.
C23_TiesKeepArrival ==
    (last.op = "msg" /\ last.type = "mempool") =>
        \A i \in 1..Len(offers) :
            /\ Old(AtPriceOf(offers, offers[i]))
                  = StillOpen(AtPriceOf(delivered.before, offers[i]))
            /\ \A j \in 1..Len(offers) :
                  (i < j /\ SamePrice(offers[i], offers[j])) =>
                      /\ offers[i].fresh => offers[j].fresh
                      /\ (offers[i].fresh /\ offers[j].fresh) =>
                            RecordOf(offers[i]) < RecordOf(offers[j])

\* C23 happens: c arrived before a at the same price, and after a later
\* message, sorted to its end, c is still before a.
C23_Witness ==
    /\ last.op = "msg" /\ last.type = "mempool" /\ ~last.threw
    /\ Len(offers) = 2
    /\ offers[1].utxoEntry.txid = "c" /\ ~offers[1].fresh
    /\ offers[2].utxoEntry.txid = "a" /\ ~offers[2].fresh
    /\ SamePrice(offers[1], offers[2])

-----------------------------------------------------------------------------
(* Properties of _transformTx.                                             *)

\* does the marked input of the record lack one of its three fields
FieldLacking(entry) ==
    /\ "in" \notin entry.missing
    /\ _findExchInput(entry) # <<>>
    /\ \/ _findExchInput(entry)[1].b2 = <<>>
       \/ _findExchInput(entry)[1].b3 = <<>>
       \/ _findExchInput(entry)[1].b4 = <<>>

\* C21: _transformTx throws for no record, and returns "not an offer" for a
\* record whose marked input lacks its price, its power or its receiving
\* address.
C21_NeverThrows ==
    transform.at = "returned" =>
        /\ ~transform.result.threw
        /\ FieldLacking(transform.entry) => transform.result = NotAnOffer

====
